---------------------------- MODULE Spec2Model ----------------------------
(***************************************************************************)
(* A model of the hippodb client: the Hippo / AuthenticatedHippo request   *)
(* layer (src/hippodb_client/__init__.py) and the interactive shell        *)
(* (src/hippodb_client/__main__.py).                                       *)
(*                                                                         *)
(* Strings are sequences of Unicode code points.  urllib.parse.quote is    *)
(* modelled as Python computes it: UTF-8 encode, then keep the unreserved  *)
(* bytes and write every other byte as %XX with upper-case hex digits.     *)
(* The service's percent-decoding is the inverse direction: %XY to a byte, *)
(* the bytes read back as UTF-8.                                           *)
(*                                                                         *)
(* Four specifications share the variables:                                *)
(*   SpecEnc    the path-segment encoding and the service's two passes     *)
(*   Spec       client life cycle, connection contexts, credentials,       *)
(*              the outcome of every operation                             *)
(*   SpecReq    the (method, path) every operation puts on the wire, and   *)
(*              a document store behind the service's two decoding passes  *)
(*   SpecShell  the interactive shell's loop                               *)
(***************************************************************************)
EXTENDS Integers, Sequences, FiniteSets, TLC

VARIABLES
    pe,        \* SpecEnc: [s, stage, val], the string under encoding/decoding
    clients,   \* sequence of client objects [cls, url, session]
    sessions,  \* sequence of aiohttp ClientSession objects [auth, closed]
    issued,    \* history: the credentials each client was created with
    call,      \* the last client operation: who, what, and how it ended
    req,       \* SpecReq: the last request on the wire
    store,     \* SpecReq: the service's documents, a set of <<path, name>>
    docs,      \* SpecReq: history, [kept, gone]: the documents the caller created
               \* and has not deleted, and the one it deleted last
    shell,     \* SpecShell: [pc, hippo], the loop's position and its variable
    service    \* how the service answers: "up" (2xx) or "failing" (non-2xx)

vars == <<pe, clients, sessions, issued, call, req, store, docs, shell, service>>

----------------------------------------------------------------------------
(* Bounds *)

\* longest input string (in characters) given to _encode_path_segment
MaxLen == 3
\* most client objects created in one behaviour
MaxClients == 3
\* most documents the modelled service holds at once
MaxDocs == 1

----------------------------------------------------------------------------
(* Characters and strings *)

SLASH == 47
PERCENT == 37
REPLACEMENT == 65533

\* '/', '%', ' ', 'a', '2', '5', U+00E9 (2 bytes in UTF-8), U+20AC (3 bytes)
Alphabet == {47, 37, 32, 97, 50, 53, 233, 8364}

Strings(n) == UNION {[1..k -> Alphabet] : k \in 0..n}

RECURSIVE Concat(_)
Concat(ss) == IF ss = <<>> THEN <<>> ELSE Head(ss) \o Concat(Tail(ss))

\* str.encode("utf-8") of one code point
Utf8Char(cp) ==
    IF cp < 128 THEN <<cp>>
    ELSE IF cp < 2048 THEN <<192 + (cp \div 64), 128 + (cp % 64)>>
    ELSE <<224 + (cp \div 4096), 128 + ((cp \div 64) % 64), 128 + (cp % 64)>>

Utf8Encode(s) == Concat([i \in 1..Len(s) |-> Utf8Char(s[i])])

IsCont(b) == b \in 128..191

\* bytes.decode("utf-8", errors="replace")
RECURSIVE Utf8Decode(_)
Utf8Decode(bs) ==
    IF bs = <<>> THEN <<>>
    ELSE LET b == bs[1] IN
         IF b < 128 THEN <<b>> \o Utf8Decode(Tail(bs))
         ELSE IF b \in 194..223 /\ Len(bs) >= 2 /\ IsCont(bs[2])
              THEN <<(b - 192) * 64 + (bs[2] - 128)>>
                   \o Utf8Decode(SubSeq(bs, 3, Len(bs)))
         ELSE IF b \in 224..239 /\ Len(bs) >= 3 /\ IsCont(bs[2]) /\ IsCont(bs[3])
              THEN <<(b - 224) * 4096 + (bs[2] - 128) * 64 + (bs[3] - 128)>>
                   \o Utf8Decode(SubSeq(bs, 4, Len(bs)))
         ELSE <<REPLACEMENT>> \o Utf8Decode(Tail(bs))

\* urllib.parse._ALWAYS_SAFE: letters, digits and "_.-~"
IsUnreserved(b) ==
    b \in (65..90) \cup (97..122) \cup (48..57) \cup {95, 46, 45, 126}

HexDigit(d) == IF d < 10 THEN 48 + d ELSE 55 + d

IsHex(c) == c \in (48..57) \cup (65..70) \cup (97..102)

HexVal(c) == IF c \in 48..57 THEN c - 48
             ELSE IF c \in 65..70 THEN c - 55 ELSE c - 87

\* a variant of QuoteByte that leaves '%' alone, as quote(..., safe="%") would
QuoteByteKeepPercent(b) ==
    IF IsUnreserved(b) \/ b = PERCENT THEN <<b>>
    ELSE <<PERCENT, HexDigit(b \div 16), HexDigit(b % 16)>>

\* urllib.parse.quote_from_bytes, one byte, safe=""
QuoteByte(b) ==
    IF IsUnreserved(b) THEN <<b>>
    ELSE <<PERCENT, HexDigit(b \div 16), HexDigit(b % 16)>>

\* urllib.parse.quote(s, safe="")
quote(s) ==
    LET bs == Utf8Encode(s) IN Concat([i \in 1..Len(bs) |-> QuoteByte(bs[i])])

\* a single-pass variant of the segment encoding
EncodeOnce(path_segment) == quote(path_segment)

\* a variant of the segment encoding with quote's default safe="/"
EncodeSlashSafe(path_segment) ==
    LET q(s) == LET bs == Utf8Encode(s) IN
                    Concat([i \in 1..Len(bs) |->
                                IF bs[i] = SLASH THEN <<SLASH>>
                                ELSE QuoteByte(bs[i])])
    IN  q(q(path_segment))

\* AuthenticatedHippo._encode_path_segment
_encode_path_segment(path_segment) == quote(quote(path_segment))

\* percent-decoding to bytes: %XY is one byte, anything else its UTF-8 bytes
RECURSIVE UnquoteToBytes(_)
UnquoteToBytes(s) ==
    IF s = <<>> THEN <<>>
    ELSE IF s[1] = PERCENT /\ Len(s) >= 3 /\ IsHex(s[2]) /\ IsHex(s[3])
         THEN <<HexVal(s[2]) * 16 + HexVal(s[3])>>
              \o UnquoteToBytes(SubSeq(s, 4, Len(s)))
         ELSE Utf8Char(s[1]) \o UnquoteToBytes(Tail(s))

\* one decoding pass of the service
Decode(s) == Utf8Decode(UnquoteToBytes(s))

\* whether s holds a percent escape, '%' followed by two hex digits
HasEscape(s) ==
    \E i \in 1..Len(s) :
        s[i] = PERCENT /\ i + 2 <= Len(s) /\ IsHex(s[i + 1]) /\ IsHex(s[i + 2])

Contains(s, c) == \E i \in 1..Len(s) : s[i] = c

----------------------------------------------------------------------------
(* SpecEnc: one string through the encoding and the service's passes *)

PeIdle == [s |-> <<>>, stage |-> "idle", val |-> <<>>]

EncOthers == <<clients, sessions, issued, call, req, store, docs, shell, service>>

\* the client encodes the caller's string
EncodeInput ==
    /\ pe.stage = "input"
    /\ pe' = [pe EXCEPT !.stage = "encoded", !.val = _encode_path_segment(pe.s)]
    /\ UNCHANGED EncOthers

\* the service's first pass, on the request target
FirstPass ==
    /\ pe.stage = "encoded"
    /\ pe' = [pe EXCEPT !.stage = "pass1", !.val = Decode(pe.val)]
    /\ UNCHANGED EncOthers

\* the service's second pass, on the segment
SecondPass ==
    /\ pe.stage = "pass1"
    /\ pe' = [pe EXCEPT !.stage = "pass2", !.val = Decode(pe.val)]
    /\ UNCHANGED EncOthers

\* the string is decoded before it is encoded
DecodeInput ==
    /\ pe.stage = "input"
    /\ pe' = [pe EXCEPT !.stage = "decoded", !.val = Decode(pe.s)]
    /\ UNCHANGED EncOthers

EncodeDecoded ==
    /\ pe.stage = "decoded"
    /\ pe' = [pe EXCEPT !.stage = "reencoded", !.val = _encode_path_segment(pe.val)]
    /\ UNCHANGED EncOthers

NextEnc ==
    \/ EncodeInput
    \/ FirstPass
    \/ SecondPass
    \/ DecodeInput
    \/ EncodeDecoded

----------------------------------------------------------------------------
(* String literals, as code points *)

\* "api/"
API == <<97, 112, 105, 47>>
\* "apps", "dbs", "tokens", "create_db", "delete", "exists", "new"
S_apps == <<97, 112, 112, 115>>
S_dbs == <<100, 98, 115>>
S_tokens == <<116, 111, 107, 101, 110, 115>>
S_create_db == <<99, 114, 101, 97, 116, 101, 95, 100, 98>>
S_delete == <<100, 101, 108, 101, 116, 101>>
S_exists == <<101, 120, 105, 115, 116, 115>>
S_new == <<110, 101, 119>>
\* "a/b", "%2F", "a/%2F"
S_a_slash_b == <<97, 47, 98>>
S_pct2F == <<37, 50, 70>>
S_a_slash_pct2F == <<97, 47, 37, 50, 70>>
\* "true", "false": str(b).lower()
StrLower(b) == IF b THEN <<116, 114, 117, 101>> ELSE <<102, 97, 108, 115, 101>>
\* applications "a1", "a2" and tokens "t1", "t2"
Apps == {<<97, 49>>, <<97, 50>>}
Tokens == {<<116, 49>>, <<116, 50>>}
Urls == {"http://h1/"}
\* a JSON document, {"x": 1}
Contents == <<123, 34, 120, 34, 58, 49, 125>>

----------------------------------------------------------------------------
(* The request each operation builds: method, path given to joinpath,      *)
(* query parameters, JSON body                                             *)

NoBody == <<>>

Request(method, path, params, json) ==
    [method |-> method, path |-> path, params |-> params, json |-> json]

server_info_req == Request("GET", API, <<>>, NoBody)

list_apps_req == Request("GET", API \o S_apps, <<>>, NoBody)

new_app_req(name) ==
    Request("POST", API \o S_apps \o <<SLASH>> \o S_new,
            <<<<"name", name>>>>, NoBody)

new_token_req(application, writeable) ==
    Request("POST", API \o S_tokens \o <<SLASH>> \o S_new,
            <<<<"app_id", application>>, <<"writeable", StrLower(writeable)>>>>,
            NoBody)

delete_app_req(application) ==
    Request("DELETE", API \o S_apps \o <<SLASH>> \o S_delete,
            <<<<"app_id", application>>>>, NoBody)

delete_token_req(token) ==
    Request("DELETE", API \o S_tokens \o <<SLASH>> \o S_delete,
            <<<<"token_id", token>>>>, NoBody)

create_database_req(path) ==
    Request("POST", API \o S_create_db, <<<<"path", path>>>>, NoBody)

list_dbs_req(path, recursive) ==
    Request("GET", API \o S_dbs \o <<SLASH>> \o _encode_path_segment(path),
            <<<<"recursive", StrLower(recursive)>>>>, NoBody)

list_documents_req(path) ==
    Request("GET", API \o _encode_path_segment(path), <<>>, NoBody)

delete_database_req(path) ==
    Request("DELETE", API \o _encode_path_segment(path), <<>>, NoBody)

create_document_req(database_path, name, contents) ==
    Request("POST", API \o _encode_path_segment(database_path),
            <<<<"document_name", name>>>>, contents)

\* a variant of read_document_req that leaves the name out of the path
read_document_req_noname(database_path, name) ==
    Request("GET", API \o _encode_path_segment(database_path), <<>>, NoBody)

read_document_req(database_path, name) ==
    Request("GET",
            API \o _encode_path_segment(database_path) \o <<SLASH>>
                \o _encode_path_segment(name),
            <<>>, NoBody)

\* a variant of document_exists_req that encodes the name once only
document_exists_req_once(database_path, name) ==
    Request("GET",
            API \o _encode_path_segment(database_path) \o <<SLASH>>
                \o EncodeOnce(name) \o <<SLASH>> \o S_exists,
            <<>>, NoBody)

document_exists_req(database_path, name) ==
    Request("GET",
            API \o _encode_path_segment(database_path) \o <<SLASH>>
                \o _encode_path_segment(name) \o <<SLASH>> \o S_exists,
            <<>>, NoBody)

update_document_req(database_path, name, contents) ==
    Request("PUT",
            API \o _encode_path_segment(database_path) \o <<SLASH>>
                \o _encode_path_segment(name),
            <<>>, contents)

delete_document_req(database_path, name) ==
    Request("DELETE",
            API \o _encode_path_segment(database_path) \o <<SLASH>>
                \o _encode_path_segment(name),
            <<>>, NoBody)

----------------------------------------------------------------------------
(* Client objects and their aiohttp sessions *)

\* ClientSession() without auth=
NoAuth == <<>>

\* the credentials a caller may hold
Creds == {<<<<97, 49>>, <<116, 49>>>>, <<<<97, 50>>, <<116, 50>>>>}

\* the argument values the operations of Spec are called with
ArgPath == S_a_slash_b
ArgName == S_pct2F
ArgApp == <<97, 49>>
ArgToken == <<116, 49>>

\* the responses a service may give: a 2xx with the expected JSON when it is
\* up; when it is failing, a non-2xx whose body is some other JSON value or
\* not JSON at all
Responses(svc) ==
    IF svc = "up" THEN {[status |-> 200, body |-> "expected"]}
    ELSE {[status |-> 404, body |-> "json"], [status |-> 404, body |-> "text"]}

NoResponse == [status |-> 0, body |-> "none"]

Is2xx(status) == status \in 200..299

\* operations that end in `await response.text()` and return None
TextOps ==
    {"delete_app", "delete_token", "delete_database", "update_document",
     "delete_document"}

\* operations that build pydantic models from `await response.json()`
ModelOps == {"list_apps", "new_app", "create_database", "list_dbs"}

\* how an operation ends once the response is in: no operation looks at the
\* status; response.json() refuses a body that is not JSON; the pydantic
\* models refuse JSON of another shape
Outcome(op, resp) ==
    IF op \in TextOps THEN "None"
    ELSE IF resp.body = "text" THEN "ContentTypeError"
    ELSE IF op \in ModelOps /\ resp.body # "expected" THEN "ValidationError"
    ELSE "value"

\* the request each operation builds for the argument values above
SampleRequest ==
    [server_info |-> server_info_req,
     list_apps |-> list_apps_req,
     new_app |-> new_app_req(ArgName),
     new_token |-> new_token_req(ArgApp, TRUE),
     delete_app |-> delete_app_req(ArgApp),
     delete_token |-> delete_token_req(ArgToken),
     create_database |-> create_database_req(ArgPath),
     list_dbs |-> list_dbs_req(ArgPath, FALSE),
     list_documents |-> list_documents_req(ArgPath),
     delete_database |-> delete_database_req(ArgPath),
     create_document |-> create_document_req(ArgPath, ArgName, Contents),
     read_document |-> read_document_req(ArgPath, ArgName),
     document_exists |-> document_exists_req(ArgPath, ArgName),
     update_document |-> update_document_req(ArgPath, ArgName, Contents),
     delete_document |-> delete_document_req(ArgPath, ArgName)]

IsOpen(c) == ~sessions[clients[c].session].closed

NoCall ==
    [client |-> 0, op |-> "none", wasClosed |-> FALSE, sent |-> FALSE,
     auth |-> NoAuth, request |-> Request("none", <<>>, <<>>, NoBody),
     response |-> NoResponse, result |-> "none"]

\* self.session.<method>(...) on session s: a closed ClientSession raises
\* RuntimeError("Session is closed") before anything is sent; an open one
\* sends the request with the session's own BasicAuth
SessionRequest(ss, s, c, op, r, resp) ==
    IF ss[s].closed
    THEN [client |-> c, op |-> op, wasClosed |-> TRUE, sent |-> FALSE,
          auth |-> NoAuth, request |-> r, response |-> NoResponse,
          result |-> "SessionClosed"]
    ELSE [client |-> c, op |-> op, wasClosed |-> FALSE, sent |-> TRUE,
          auth |-> ss[s].auth, request |-> r, response |-> resp,
          result |-> Outcome(op, resp)]

Others == <<pe, req, store, docs, shell, service>>

Perform(c, op, r) ==
    /\ c \in DOMAIN clients
    /\ \E resp \in Responses(service) :
        call' = SessionRequest(sessions, clients[c].session, c, op, r, resp)
    /\ UNCHANGED <<clients, sessions, issued>>
    /\ UNCHANGED Others

IsAuthenticated(c) == c \in DOMAIN clients /\ clients[c].cls = "AuthenticatedHippo"

\* the objects after Hippo.create(url): a new client on a new session
Hippo_create_objs(cs, ss, url) ==
    [clients |-> Append(cs, [cls |-> "Hippo", url |-> url,
                             session |-> Len(ss) + 1]),
     sessions |-> Append(ss, [auth |-> NoAuth, closed |-> FALSE])]

\* a variant of AuthenticatedHippo.create that forgets auth=
AuthenticatedHippo_create_noauth(cs, ss, url, application, token) ==
    [clients |-> Append(cs, [cls |-> "AuthenticatedHippo", url |-> url,
                             session |-> Len(ss) + 1]),
     sessions |-> Append(ss, [auth |-> NoAuth, closed |-> FALSE])]

\* the objects after AuthenticatedHippo.create(url, application, token)
AuthenticatedHippo_create_objs(cs, ss, url, application, token) ==
    [clients |-> Append(cs, [cls |-> "AuthenticatedHippo", url |-> url,
                             session |-> Len(ss) + 1]),
     sessions |-> Append(ss, [auth |-> <<application, token>>,
                              closed |-> FALSE])]

\* a variant of authenticate that hands its own session to the new client
authenticate_sharing(cs, ss, c, application, token) ==
    [clients |-> Append(cs, [cls |-> "AuthenticatedHippo", url |-> cs[c].url,
                             session |-> cs[c].session]),
     sessions |-> ss]

\* the objects after Hippo.authenticate(application, token) on client c
authenticate_objs(cs, ss, c, application, token) ==
    AuthenticatedHippo_create_objs(cs, ss, cs[c].url, application, token)

\* the sessions after close() on client c
close_objs(cs, ss, c) == [ss EXCEPT ![cs[c].session].closed = TRUE]

----------------------------------------------------------------------------
(* Spec: the operations of Hippo and AuthenticatedHippo *)

Hippo_create(url) ==
    /\ Len(clients) < MaxClients
    /\ LET o == Hippo_create_objs(clients, sessions, url) IN
        /\ clients' = o.clients
        /\ sessions' = o.sessions
    /\ issued' = Append(issued, NoAuth)
    /\ call' = [NoCall EXCEPT !.client = Len(clients) + 1, !.op = "create",
                              !.result = "value"]
    /\ UNCHANGED Others

AuthenticatedHippo_create(url, application, token) ==
    /\ Len(clients) < MaxClients
    /\ LET o == AuthenticatedHippo_create_objs(clients, sessions, url,
                                               application, token) IN
        /\ clients' = o.clients
        /\ sessions' = o.sessions
    /\ issued' = Append(issued, <<application, token>>)
    /\ call' = [NoCall EXCEPT !.client = Len(clients) + 1, !.op = "create",
                              !.result = "value"]
    /\ UNCHANGED Others

close(c) ==
    /\ c \in DOMAIN clients
    /\ sessions' = close_objs(clients, sessions, c)
    /\ call' = [NoCall EXCEPT !.client = c, !.op = "close",
                              !.wasClosed = ~IsOpen(c), !.result = "None"]
    /\ UNCHANGED <<clients, issued>>
    /\ UNCHANGED Others

\* authenticate never touches self.session: it runs on a closed client too
authenticate(c, application, token) ==
    /\ c \in DOMAIN clients
    /\ Len(clients) < MaxClients
    /\ LET o == authenticate_objs(clients, sessions, c, application, token) IN
        /\ clients' = o.clients
        /\ sessions' = o.sessions
    /\ issued' = Append(issued, <<application, token>>)
    /\ call' = [NoCall EXCEPT !.client = c, !.op = "authenticate",
                              !.wasClosed = ~IsOpen(c), !.result = "value"]
    /\ UNCHANGED Others

server_info(c) == Perform(c, "server_info", SampleRequest.server_info)

list_apps(c) == Perform(c, "list_apps", SampleRequest.list_apps)

new_app(c) == Perform(c, "new_app", SampleRequest.new_app)

new_token(c) == Perform(c, "new_token", SampleRequest.new_token)

delete_app(c) ==
    /\ IsAuthenticated(c)
    /\ Perform(c, "delete_app", SampleRequest.delete_app)

delete_token(c) ==
    /\ IsAuthenticated(c)
    /\ Perform(c, "delete_token", SampleRequest.delete_token)

create_database(c) ==
    /\ IsAuthenticated(c)
    /\ Perform(c, "create_database", SampleRequest.create_database)

list_dbs(c) ==
    /\ IsAuthenticated(c)
    /\ Perform(c, "list_dbs", SampleRequest.list_dbs)

list_documents(c) ==
    /\ IsAuthenticated(c)
    /\ Perform(c, "list_documents", SampleRequest.list_documents)

delete_database(c) ==
    /\ IsAuthenticated(c)
    /\ Perform(c, "delete_database", SampleRequest.delete_database)

create_document(c) ==
    /\ IsAuthenticated(c)
    /\ Perform(c, "create_document", SampleRequest.create_document)

read_document(c) ==
    /\ IsAuthenticated(c)
    /\ Perform(c, "read_document", SampleRequest.read_document)

document_exists(c) ==
    /\ IsAuthenticated(c)
    /\ Perform(c, "document_exists", SampleRequest.document_exists)

update_document(c) ==
    /\ IsAuthenticated(c)
    /\ Perform(c, "update_document", SampleRequest.update_document)

delete_document(c) ==
    /\ IsAuthenticated(c)
    /\ Perform(c, "delete_document", SampleRequest.delete_document)

ReqIdle ==
    [op |-> "none", database_path |-> <<>>, name |-> <<>>,
     request |-> Request("none", <<>>, <<>>, NoBody), reply |-> "none"]

DocsIdle == [kept |-> {}, gone |-> {}]

ShellIdle == [pc |-> "idle", hippo |-> 0, line |-> "none", error |-> "none"]

InitClients ==
    /\ clients = <<>>
    /\ sessions = <<>>
    /\ issued = <<>>
    /\ call = NoCall

Init ==
    /\ InitClients
    /\ service = "up"
    /\ pe = PeIdle
    /\ req = ReqIdle
    /\ store = {}
    /\ docs = DocsIdle
    /\ shell = ShellIdle

ClientIds == 1..MaxClients

Create == \E u \in Urls : Hippo_create(u)
CreateAuthenticated ==
    \E u \in Urls, k \in Creds : AuthenticatedHippo_create(u, k[1], k[2])
Close == \E c \in ClientIds : close(c)
Authenticate == \E c \in ClientIds, k \in Creds : authenticate(c, k[1], k[2])
ServerInfo == \E c \in ClientIds : server_info(c)
ListApps == \E c \in ClientIds : list_apps(c)
NewApp == \E c \in ClientIds : new_app(c)
NewToken == \E c \in ClientIds : new_token(c)
DeleteApp == \E c \in ClientIds : delete_app(c)
DeleteToken == \E c \in ClientIds : delete_token(c)
CreateDatabase == \E c \in ClientIds : create_database(c)
ListDbs == \E c \in ClientIds : list_dbs(c)
ListDocuments == \E c \in ClientIds : list_documents(c)
DeleteDatabase == \E c \in ClientIds : delete_database(c)
CreateDocument == \E c \in ClientIds : create_document(c)
ReadDocument == \E c \in ClientIds : read_document(c)
DocumentExists == \E c \in ClientIds : document_exists(c)
UpdateDocument == \E c \in ClientIds : update_document(c)
DeleteDocument == \E c \in ClientIds : delete_document(c)

Requests ==
    \/ ServerInfo
    \/ ListApps
    \/ NewApp
    \/ NewToken
    \/ DeleteApp
    \/ DeleteToken
    \/ CreateDatabase
    \/ ListDbs
    \/ ListDocuments
    \/ DeleteDatabase
    \/ CreateDocument
    \/ ReadDocument
    \/ DocumentExists
    \/ UpdateDocument
    \/ DeleteDocument

Next ==
    \/ Create
    \/ CreateAuthenticated
    \/ Close
    \/ Authenticate
    \/ Requests

Spec == Init /\ [][Next]_vars

\* SpecResp: one authenticated client, already constructed, against a
\* service that is up or failing
InitResp ==
    /\ \E u \in Urls, k \in Creds :
        LET o == AuthenticatedHippo_create_objs(<<>>, <<>>, u, k[1], k[2]) IN
            /\ clients = o.clients
            /\ sessions = o.sessions
            /\ issued = <<k>>
    /\ call = NoCall
    /\ service \in {"up", "failing"}
    /\ pe = PeIdle
    /\ req = ReqIdle
    /\ store = {}
    /\ docs = DocsIdle
    /\ shell = ShellIdle

NextResp ==
    \/ Close
    \/ Requests

SpecResp == InitResp /\ [][NextResp]_vars

InitEnc ==
    /\ pe \in {[s |-> x, stage |-> "input", val |-> x] : x \in Strings(MaxLen)}
    /\ InitClients
    /\ service = "up"
    /\ req = ReqIdle
    /\ store = {}
    /\ docs = DocsIdle
    /\ shell = ShellIdle

SpecEnc == InitEnc /\ [][NextEnc]_vars

----------------------------------------------------------------------------
(* SpecReq: what each database/document operation puts on the wire, and a  *)
(* service that decodes the request target once, splits it on '/', decodes *)
(* each segment once more, and keeps documents by <<path, name>>           *)

\* database paths: "", the words the fixed routes use, and "a/b"
DbPaths == {<<>>, S_apps, S_dbs, S_tokens, S_create_db, S_a_slash_b}
\* document names: "delete" and "a/%2F"
DocNames == {S_delete, S_a_slash_pct2F}

RECURSIVE SplitFrom(_, _)
SplitFrom(s, cur) ==
    IF s = <<>> THEN <<cur>>
    ELSE IF s[1] = SLASH THEN <<cur>> \o SplitFrom(Tail(s), <<>>)
    ELSE SplitFrom(Tail(s), Append(cur, s[1]))

\* s.split("/")
Split(s) == SplitFrom(s, <<>>)

\* the service's view of a request: the target after the first pass, split
\* on '/', and the path and name segments after the second pass
ServiceParse(r) ==
    LET segs == Split(Decode(r.path))
        n == Len(segs)
    IN  [method |-> r.method, n |-> n,
         path |-> IF n >= 2 THEN Decode(segs[2]) ELSE <<>>,
         name |-> IF n >= 3 THEN Decode(segs[3]) ELSE <<>>,
         last |-> segs[n],
         params |-> r.params]

Param(params, key) ==
    LET hits == {i \in 1..Len(params) : params[i][1] = key} IN
        IF hits = {} THEN <<>> ELSE params[CHOOSE i \in hits : TRUE][2]

\* the service: the store after a parsed request q, and the reply
ServiceApply(st, q) ==
    IF q.method = "POST" /\ q.n = 2
    THEN [store |-> st \cup {<<q.path, Param(q.params, "document_name")>>},
          reply |-> "created"]
    ELSE IF q.method = "GET" /\ q.n = 4 /\ q.last = S_exists
    THEN [store |-> st,
          reply |-> IF <<q.path, q.name>> \in st THEN "true" ELSE "false"]
    ELSE IF q.method = "DELETE" /\ q.n = 3
    THEN [store |-> st \ {<<q.path, q.name>>}, reply |-> "deleted"]
    ELSE IF q.method = "DELETE" /\ q.n = 2
    THEN [store |-> {d \in st : d[1] # q.path}, reply |-> "deleted"]
    ELSE [store |-> st, reply |-> "ok"]

WireCall(op, database_path, name, r) ==
    [op |-> op, database_path |-> database_path, name |-> name, request |-> r,
     parsed |-> ServiceParse(r)]

\* every call of a database/document operation over the argument sets, with
\* the request the operation builds for it
WireCalls ==
    [list_dbs |->
        {WireCall("list_dbs", p, <<>>, list_dbs_req(p, rec)) :
            p \in DbPaths \cup DocNames, rec \in BOOLEAN},
     list_documents |->
        {WireCall("list_documents", p, <<>>, list_documents_req(p)) :
            p \in DbPaths},
     delete_database |->
        {WireCall("delete_database", p, <<>>, delete_database_req(p)) :
            p \in DbPaths},
     create_document |->
        {WireCall("create_document", p, n, create_document_req(p, n, Contents)) :
            p \in DbPaths, n \in DocNames},
     read_document |->
        {WireCall("read_document", p, n, read_document_req(p, n)) :
            p \in DbPaths, n \in DocNames},
     document_exists |->
        {WireCall("document_exists", p, n, document_exists_req(p, n)) :
            p \in DbPaths, n \in DocNames},
     update_document |->
        {WireCall("update_document", p, n, update_document_req(p, n, Contents)) :
            p \in DbPaths, n \in DocNames},
     delete_document |->
        {WireCall("delete_document", p, n, delete_document_req(p, n)) :
            p \in DbPaths, n \in DocNames}]

ReqOthers == <<pe, clients, sessions, issued, call, shell, service>>

\* one call of an open AuthenticatedHippo reaches the service
Wire(o) ==
    LET h == ServiceApply(store, o.parsed) IN
        /\ Cardinality(h.store) <= MaxDocs
        /\ store' = h.store
        /\ req' = [op |-> o.op, database_path |-> o.database_path,
                   name |-> o.name, request |-> o.request, reply |-> h.reply]
        /\ UNCHANGED ReqOthers

list_dbs_wire ==
    \E o \in WireCalls.list_dbs :
        /\ Wire(o)
        /\ UNCHANGED docs

list_documents_wire ==
    \E o \in WireCalls.list_documents :
        /\ Wire(o)
        /\ UNCHANGED docs

delete_database_wire ==
    \E o \in WireCalls.delete_database :
        /\ Wire(o)
        /\ docs' = [kept |-> {d \in docs.kept : d[1] # o.database_path},
                    gone |-> docs.gone]

create_document_wire ==
    \E o \in WireCalls.create_document :
        /\ Wire(o)
        /\ docs' = [kept |-> docs.kept \cup {<<o.database_path, o.name>>},
                    gone |-> docs.gone \ {<<o.database_path, o.name>>}]

read_document_wire ==
    \E o \in WireCalls.read_document :
        /\ Wire(o)
        /\ UNCHANGED docs

document_exists_wire ==
    \E o \in WireCalls.document_exists :
        /\ Wire(o)
        /\ UNCHANGED docs

update_document_wire ==
    \E o \in WireCalls.update_document :
        /\ Wire(o)
        /\ UNCHANGED docs

delete_document_wire ==
    \E o \in WireCalls.delete_document :
        /\ Wire(o)
        /\ docs' = [kept |-> docs.kept \ {<<o.database_path, o.name>>},
                    gone |-> IF <<o.database_path, o.name>> \in docs.kept
                             THEN {<<o.database_path, o.name>>}
                             ELSE docs.gone]

NextReq ==
    \/ list_dbs_wire
    \/ list_documents_wire
    \/ delete_database_wire
    \/ create_document_wire
    \/ read_document_wire
    \/ document_exists_wire
    \/ update_document_wire
    \/ delete_document_wire

SpecReq == Init /\ [][NextReq]_vars

WireOps ==
    {"list_dbs", "list_documents", "delete_database", "create_document",
     "read_document", "document_exists", "update_document", "delete_document"}

\* every request an operation can build, over the argument sets
AllRequests ==
    {[op |-> "server_info", request |-> server_info_req],
     [op |-> "list_apps", request |-> list_apps_req]}
    \cup {[op |-> "new_app", request |-> new_app_req(n)] : n \in DocNames}
    \cup {[op |-> "new_token", request |-> new_token_req(a, w)] :
            a \in Apps, w \in BOOLEAN}
    \cup {[op |-> "delete_app", request |-> delete_app_req(a)] : a \in Apps}
    \cup {[op |-> "delete_token", request |-> delete_token_req(k)] : k \in Tokens}
    \cup {[op |-> "create_database", request |-> create_database_req(p)] :
            p \in DbPaths}
    \cup UNION {{[op |-> o.op, request |-> o.request] : o \in WireCalls[w]} :
                w \in WireOps}

----------------------------------------------------------------------------
(* SpecShell: main() of the interactive shell.  shell.hippo is the `hippo`  *)
(* variable (0 for None), shell.line the kind of line last read, and       *)
(* shell.pc is "start", "prompt", "done" (main returned) or "crashed" (an   *)
(* exception other than KeyboardInterrupt/EOFError left main)               *)

ShOthers == <<pe, req, store, docs, service>>

\* the loop goes on to the next prompt
ShContinue(line) ==
    /\ shell' = [shell EXCEPT !.line = line]
    /\ UNCHANGED <<clients, sessions, issued, call>>
    /\ UNCHANGED ShOthers

\* an exception that main does not catch
ShCrash(line, error) ==
    /\ shell' = [shell EXCEPT !.pc = "crashed", !.line = line, !.error = error]
    /\ UNCHANGED <<clients, sessions, issued, call>>
    /\ UNCHANGED ShOthers

\* `if hippo is not None: await hippo.close()`, then main returns
ShCloseAndReturn(line) ==
    /\ shell' = [shell EXCEPT !.pc = "done", !.line = line]
    /\ sessions' = IF shell.hippo # 0
                   THEN close_objs(clients, sessions, shell.hippo)
                   ELSE sessions
    /\ UNCHANGED <<clients, issued, call>>
    /\ UNCHANGED ShOthers

\* `await hippo.<op>(...)` with its arguments present
ShRequest(line, op) ==
    \E resp \in Responses(service) :
        LET k == SessionRequest(sessions, clients[shell.hippo].session,
                                shell.hippo, op, SampleRequest[op], resp)
        IN  /\ call' = k
            /\ shell' = IF k.result \in {"value", "None"}
                        THEN [shell EXCEPT !.line = line]
                        ELSE [shell EXCEPT !.pc = "crashed", !.line = line,
                                           !.error = k.result]
            /\ UNCHANGED <<clients, sessions, issued>>
            /\ UNCHANGED ShOthers

\* main() up to the loop, no argument given
sh_start ==
    /\ shell.pc = "start"
    /\ shell' = [shell EXCEPT !.pc = "prompt"]
    /\ UNCHANGED <<clients, sessions, issued, call>>
    /\ UNCHANGED ShOthers

\* main() up to the loop, sys.argv[1] is a URL
sh_start_url ==
    /\ shell.pc = "start"
    /\ \E u \in Urls :
        LET o == Hippo_create_objs(clients, sessions, u) IN
            /\ clients' = o.clients
            /\ sessions' = o.sessions
            /\ issued' = Append(issued, NoAuth)
            /\ shell' = [shell EXCEPT !.pc = "prompt", !.hippo = Len(o.clients)]
    /\ UNCHANGED call
    /\ UNCHANGED ShOthers

\* URL(sys.argv[1]) raises: "Invalid url.", return
sh_start_bad_url ==
    /\ shell.pc = "start"
    /\ shell' = [shell EXCEPT !.pc = "done", !.error = "Invalid url."]
    /\ UNCHANGED <<clients, sessions, issued, call>>
    /\ UNCHANGED ShOthers

\* shlex.split raises: "Invalid syntax.", continue
sh_bad_syntax ==
    /\ shell.pc = "prompt"
    /\ ShContinue("bad_syntax")

\* an empty line: command = [] and command[0] raises IndexError
sh_empty ==
    /\ shell.pc = "prompt"
    /\ ShCrash("empty", "IndexError")

sh_exit ==
    /\ shell.pc = "prompt"
    /\ ShCloseAndReturn("exit")

\* input() raises EOFError or KeyboardInterrupt
sh_eof ==
    /\ shell.pc = "prompt"
    /\ \E how \in {"eof", "interrupt"} : ShCloseAndReturn(how)

\* connect <url>: close the current client, create a new one
sh_connect ==
    /\ shell.pc = "prompt"
    /\ Len(clients) < MaxClients
    /\ \E u \in Urls :
        LET closed == IF shell.hippo # 0
                      THEN close_objs(clients, sessions, shell.hippo)
                      ELSE sessions
            o == Hippo_create_objs(clients, closed, u)
        IN  /\ clients' = o.clients
            /\ sessions' = o.sessions
            /\ issued' = Append(issued, NoAuth)
            /\ shell' = [shell EXCEPT !.hippo = Len(o.clients),
                                      !.line = "connect"]
    /\ UNCHANGED call
    /\ UNCHANGED ShOthers

\* connect without a url: command[1] raises inside the try, "Invalid url."
sh_connect_no_url ==
    /\ shell.pc = "prompt"
    /\ ShContinue("connect_no_url")

\* auth <app-id> <token>: authenticate, close the old client, keep the new
sh_auth ==
    /\ shell.pc = "prompt"
    /\ IF shell.hippo = 0
       THEN ShCrash("auth", "AttributeError")
       ELSE /\ Len(clients) < MaxClients
            /\ \E k \in Creds :
                LET o == authenticate_objs(clients, sessions, shell.hippo,
                                           k[1], k[2])
                IN  /\ clients' = o.clients
                    /\ sessions' = close_objs(o.clients, o.sessions, shell.hippo)
                    /\ issued' = Append(issued, k)
                    /\ shell' = [shell EXCEPT !.hippo = Len(o.clients),
                                              !.line = "auth"]
            /\ UNCHANGED call
            /\ UNCHANGED ShOthers

\* auth with an argument missing: command[1] or command[2] raises IndexError
sh_auth_missing ==
    /\ shell.pc = "prompt"
    /\ ShCrash("auth_missing",
               IF shell.hippo = 0 THEN "AttributeError" ELSE "IndexError")

sh_list_apps ==
    /\ shell.pc = "prompt"
    /\ IF shell.hippo = 0
       THEN ShCrash("list_apps", "AttributeError")
       ELSE ShRequest("list_apps", "list_apps")

sh_new_app ==
    /\ shell.pc = "prompt"
    /\ IF shell.hippo = 0
       THEN ShCrash("new_app", "AttributeError")
       ELSE ShRequest("new_app", "new_app")

sh_new_token ==
    /\ shell.pc = "prompt"
    /\ IF shell.hippo = 0
       THEN ShCrash("new_token", "AttributeError")
       ELSE ShRequest("new_token", "new_token")

sh_new_token_missing ==
    /\ shell.pc = "prompt"
    /\ ShCrash("new_token_missing",
               IF shell.hippo = 0 THEN "AttributeError" ELSE "IndexError")

\* delete_app <app-id>: only an AuthenticatedHippo has delete_app
sh_delete_app ==
    /\ shell.pc = "prompt"
    /\ IF shell.hippo = 0 \/ ~IsAuthenticated(shell.hippo)
       THEN ShCrash("delete_app", "AttributeError")
       ELSE ShRequest("delete_app", "delete_app")

\* delete_token, help and unknown commands touch no client
sh_other ==
    /\ shell.pc = "prompt"
    /\ \E line \in {"delete_token", "help", "unknown"} : ShContinue(line)

InitShell ==
    /\ InitClients
    /\ shell = [pc |-> "start", hippo |-> 0, line |-> "none", error |-> "none"]
    /\ service \in {"up", "failing"}
    /\ pe = PeIdle
    /\ req = ReqIdle
    /\ store = {}
    /\ docs = DocsIdle

NextShell ==
    \/ sh_start
    \/ sh_start_url
    \/ sh_start_bad_url
    \/ sh_bad_syntax
    \/ sh_empty
    \/ sh_exit
    \/ sh_eof
    \/ sh_connect
    \/ sh_connect_no_url
    \/ sh_auth
    \/ sh_auth_missing
    \/ sh_list_apps
    \/ sh_new_app
    \/ sh_new_token
    \/ sh_new_token_missing
    \/ sh_delete_app
    \/ sh_other

SpecShell == InitShell /\ [][NextShell]_vars

----------------------------------------------------------------------------
(* The claims *)

\* C1: on a client whose close() has completed, every operation other than
\* close() fails with the closed-client error and sends nothing.
ClosedClientFails ==
    (call.wasClosed /\ call.op \notin {"none", "create", "close"})
        => (call.result = "SessionClosed" /\ ~call.sent)

\* C2: two successive decoding passes applied to _encode_path_segment(s)
\* give back exactly s.
RoundTrip == pe.stage = "pass2" => pe.val = pe.s

\* a string holding '/', '%' and a three-byte character has gone through the
\* encoding and both passes
RoundTripWitness ==
    /\ pe.stage = "pass2"
    /\ Contains(pe.s, SLASH) /\ Contains(pe.s, PERCENT) /\ Contains(pe.s, 8364)
    /\ pe.val = pe.s

PathOps ==
    {"list_documents", "delete_database", "create_document", "read_document",
     "document_exists", "update_document", "delete_document"}

\* the segments a request path has: "api", then "dbs" for list_dbs, one per
\* logical argument, then "exists" for document_exists
SegmentCount(op) ==
    CASE op \in {"list_documents", "delete_database", "create_document"} -> 2
      [] op \in {"list_dbs", "read_document", "update_document",
                 "delete_document"} -> 3
      [] op = "document_exists" -> 4

HasName(op) ==
    op \in {"read_document", "document_exists", "update_document",
            "delete_document"}

ReencodeEqual ==
    pe.stage = "reencoded" => pe.val = _encode_path_segment(pe.s)

\* C4, amended: encode(decode(s)) = encode(s) exactly for the strings s that
\* hold no percent escape ('%' followed by two hex digits).
ReencodeEqualIffNoEscape ==
    pe.stage = "reencoded" =>
        ((pe.val = _encode_path_segment(pe.s)) <=> ~HasEscape(pe.s))

\* a string with '%' and '/' but no escape has been decoded and re-encoded
ReencodeWitness ==
    /\ pe.stage = "reencoded"
    /\ Contains(pe.s, PERCENT) /\ Contains(pe.s, SLASH)
    /\ ~HasEscape(pe.s)
    /\ pe.val = _encode_path_segment(pe.s)

\* C5: every request sent carries exactly the credentials its client was
\* created with, and none for a Session Client.
CredentialsOfIssuer == call.sent => call.auth = issued[call.client]

\* a Session Client and two Authenticated Clients with different credentials
\* are open, and the older Authenticated Client has just sent a request
CredentialsWitness ==
    /\ Len(clients) = 3
    /\ clients[1].cls = "Hippo"
    /\ issued[2] # NoAuth /\ issued[3] # NoAuth /\ issued[2] # issued[3]
    /\ \A c \in 1..3 : IsOpen(c)
    /\ call.sent /\ call.client = 2 /\ call.auth = issued[2]

\* C6: an operation whose request got a non-2xx response fails with
\* ServiceError; it never returns normally.
NonSuccessRaises ==
    (call.sent /\ ~Is2xx(call.response.status)) => call.result = "ServiceError"

SessionsOf(cs) == {cs[i].session : i \in DOMAIN cs}

NoSharedContext ==
    \A c1, c2 \in DOMAIN clients :
        c1 # c2 => clients[c1].session # clients[c2].session

\* an authenticate step on an open client: the new client's session is newly
\* opened and no other client's, the caller and its session are as they were
AuthenticateStep ==
    (call'.op = "authenticate" /\ ~call'.wasClosed
        /\ Len(clients') = Len(clients) + 1)
    => LET c == call'.client
           new == clients'[Len(clients')]
       IN  /\ new.session \notin DOMAIN sessions
           /\ new.session \notin SessionsOf(clients)
           /\ ~sessions'[new.session].closed
           /\ clients'[c] = clients[c]
           /\ sessions'[clients[c].session] = sessions[clients[c].session]
           /\ ~sessions'[clients'[c].session].closed

\* C7: authenticate on an open client opens a new connection context for the
\* new client and leaves the caller open with its own context and base URL;
\* no connection context is ever owned by two clients.
ExclusiveContexts == []NoSharedContext /\ [][AuthenticateStep]_vars

\* an open Session Client has authenticated twice and is still open
ExclusiveContextsWitness ==
    /\ Len(clients) = 3
    /\ clients[1].cls = "Hippo" /\ IsOpen(1)
    /\ call.op = "authenticate" /\ call.client = 1 /\ ~call.wasClosed
    /\ IsOpen(3)

Collides ==
    \E o \in AllRequests :
        /\ o.op # req.op
        /\ o.request.method = req.request.method
        /\ o.request.path = req.request.path

SpellsRoute(op, database_path, name) ==
    \/ op = "list_documents" /\ database_path \in {<<>>, S_apps}
    \/ op = "create_document" /\ database_path = S_create_db
    \/ op = "read_document" /\ database_path = S_dbs
    \/ op = "delete_document" /\ database_path \in {S_apps, S_tokens}
        /\ name = S_delete

OpenClients == {c \in DOMAIN clients : IsOpen(c)}

\* C10: at each prompt at most one client of the shell is open, and once the
\* loop has ended every client it created is closed.
ShellClosesEveryClient ==
    /\ shell.pc = "prompt" => Cardinality(OpenClients) <= 1
    /\ shell.pc \in {"done", "crashed"} => OpenClients = {}

=============================================================================
